---------------------------- MODULE Spec2Model ----------------------------
(***************************************************************************)
(* A model of the two iostat relays of this repository:                    *)
(*   iostat_plugin.py           (prog = "plugin",   agents collectd and     *)
(*                               graphite, optional transmission)           *)
(*   iostat_collectd_plugin.py  (prog = "collectd", local format only)      *)
(*                                                                         *)
(* The parent spawns iostat, registers its signal handlers and then reads   *)
(* the child's output one line at a time.  Text is modelled as sequences    *)
(* of one-character strings, so that split(), strip(), replace() and        *)
(* str.format() are computed and not assumed.  The sources are Python 2     *)
(* (readline() returns str, sendall() takes a str), and the model follows   *)
(* Python 2.7: a handled signal that arrives during the blocking            *)
(* readline() runs its handler and the read is resumed.                     *)
(***************************************************************************)
EXTENDS Integers, Sequences, FiniteSets, TLC

(* ------------------------------ bounds --------------------------------- *)
\* number of lines the child writes in one run
MaxLines == 3
\* lines the pipe holds between the child and the parent
MaxPipe == 1
\* signals the environment delivers to the parent in one run
MaxSignals == 2

(* --------------------------- program text ------------------------------ *)
SIGINT == 2
SIGTERM == 15
DeviceMarker == <<"D", "e", "v", "i", "c", "e", ":">>
CpuMarker == <<"a", "v", "g", "-", "c", "p", "u", ":">>
CpuName == <<"c", "p", "u">>
PutvalText == <<"P", "U", "T", "V", "A", "L", " ">>
IostatPathText == <<"/", "i", "o", "s", "t", "a", "t", "/", "g", "a", "u", "g", "e", "-">>
IostatPluginPathText == <<"/", "i", "o", "s", "t", "a", "t", "p", "l", "u", "g", "i", "n", "/", "g", "a", "u", "g", "e", "-">>
SlashText == <<"/">>
NText == <<" ", "N", ":">>
GraphitePrefixText == <<"i", "o", "s", "t", "a", "t", ".">>
DotText == <<".">>
SpaceText == <<" ">>
HostOpenText == <<" ", "h", "o", "s", "t", "=", "'">>
QuoteText == <<"'">>
TerminatingText == <<"T", "e", "r", "m", "i", "n", "a", "t", "i", "n", "g", " ", "p", "r", "o", "c", "e", "s", "s", ".", ".", ".", " ", "(">>
CloseParenText == <<")">>
NoNewLinesText == <<"N", "o", " ", "n", "e", "w", " ", "l", "i", "n", "e", "s", "(", "!", ")", ".">>
SanitizedChars == <<"/", "-", "%">>
GetHostName == <<"h", ".", "x">>
LineDev2 == <<"D", "e", "v", "i", "c", "e", ":", " ", "r", "/", "s", " ", "%", "u", "t", "i", "l", "\n">>
LineCpu1 == <<"a", "v", "g", "-", "c", "p", "u", ":", " ", "%", "i", "d", "l", "e", "\n">>
LineDev0 == <<"D", "e", "v", "i", "c", "e", ":", "\n">>
LineRow3 == <<"s", "d", "a", " ", "1", " ", "2", "\n">>
LineRow2 == <<"3", " ", "4", "\n">>
LineRow1 == <<"5", "\n">>
LineBlank == <<"\n">>
LineSpaces == <<" ", "\n">>

\* what the child can write: two device headers (two and zero columns), a
\* CPU header (one column), rows of three, two and one token, a blank line
\* and a whitespace-only line
LineSet == {LineDev2, LineCpu1, LineDev0, LineRow3, LineRow2, LineRow1,
            LineBlank, LineSpaces}

\* a device report: its header and one row
SampleLines == {LineDev2, LineRow3}

AGENTS == {"collectd", "graphite"}

(* ---------------------------- str methods ------------------------------ *)
IsSpace(c) == c \in {" ", "\n", "\t"}

RECURSIVE split_rec(_, _, _)
split_rec(s, cur, acc) ==
    IF s = <<>>
    THEN IF cur = <<>> THEN acc ELSE Append(acc, cur)
    ELSE IF IsSpace(Head(s))
         THEN split_rec(Tail(s), <<>>, IF cur = <<>> THEN acc ELSE Append(acc, cur))
         ELSE split_rec(Tail(s), Append(cur, Head(s)), acc)

\* str.split() without arguments: the maximal runs of non-whitespace
split(s) == split_rec(s, <<>>, <<>>)

RECURSIVE lstrip(_)
lstrip(s) ==
    IF s # <<>> /\ IsSpace(Head(s)) THEN lstrip(Tail(s)) ELSE s

RECURSIVE rstrip(_)
rstrip(s) ==
    IF s # <<>> /\ IsSpace(s[Len(s)]) THEN rstrip(SubSeq(s, 1, Len(s) - 1)) ELSE s

\* str.strip() without arguments
strip(s) == rstrip(lstrip(s))

\* character in part
contains(part, character) == \E i \in 1..Len(part) : part[i] = character

\* the text is left as it is
replace_nothing(part, character, new) == part

\* part.replace(character, new), for a one-character pattern
replace(part, character, new) ==
    [i \in 1..Len(part) |-> IF part[i] = character THEN new ELSE part[i]]

RECURSIVE concat(_)
concat(pieces) ==
    IF pieces = <<>> THEN <<>> ELSE Head(pieces) \o concat(Tail(pieces))

\* '%s' % sig_no
str(n) == IF n = 15 THEN <<"1", "5">> ELSE IF n = 2 THEN <<"2">> ELSE <<"?">>

(* ------------------------------ values --------------------------------- *)
\* io_stats is None or a list of column names
NoneValue == [none |-> TRUE, list |-> <<>>]
ListValue(l) == [none |-> FALSE, list |-> l]
\* Python truth of io_stats: None and [] are both false
Truthy(v) == ~v.none /\ v.list # <<>>
\* param_type None (a token is never empty)
NoType == <<>>

(* ------------------------- iostat_plugin.py ---------------------------- *)
\* the inner loop of get_parameters: for character in '/-%'
RECURSIVE clean(_, _)
clean(part, characters) ==
    IF characters = <<>> THEN part
    ELSE clean(IF contains(part, Head(characters))
               THEN replace(part, Head(characters), "_")
               ELSE part,
               Tail(characters))

\* for part in parts[1:]: the cleaned name of every such part
cleaned(parts) ==
    [part \in {parts[j] : j \in 2..Len(parts)} |-> clean(part, SanitizedChars)]

get_parameters(line) ==
    LET parts == split(line)
    IN  IF parts # <<>> /\ parts[1] \in {CpuMarker, DeviceMarker}
        THEN [param_type |-> parts[1],
              param_list |-> [i \in 1..(Len(parts) - 1) |->
                                 cleaned(parts)[parts[i + 1]]]]
        ELSE [param_type |-> NoType, param_list |-> <<>>]

\* the device row keeps its first k tokens as values
classify_shifted(parts, params) ==
    IF Len(parts) = Len(params) + 1
    THEN [device |-> parts[1], values |-> SubSeq(parts, 1, Len(parts) - 1)]
    ELSE IF Len(parts) = Len(params)
         THEN [device |-> CpuName, values |-> parts]
         ELSE [device |-> <<>>, values |-> <<>>]

\* the k-token row is named after its first token
classify_cpu_named(parts, params) ==
    IF Len(parts) = Len(params) + 1
    THEN [device |-> parts[1], values |-> Tail(parts)]
    ELSE IF Len(parts) = Len(params)
         THEN [device |-> parts[1], values |-> parts]
         ELSE [device |-> <<>>, values |-> <<>>]

\* the device and the values the row classifier finds; device <<>> is None
classify(parts, params) ==
    IF Len(parts) = Len(params) + 1
    THEN [device |-> parts[1], values |-> Tail(parts)]
    ELSE IF Len(parts) = Len(params)
         THEN [device |-> CpuName, values |-> parts]
         ELSE [device |-> <<>>, values |-> <<>>]

extract_line_data(line, params) ==
    IF strip(line) # <<>>
    THEN CHOOSE data \in
             {IF row.device # <<>>
              THEN [i \in 1..Len(row.values) |->
                       [device |-> row.device,
                        param  |-> params[i],
                        value  |-> row.values[i]]]
              ELSE <<>>
              : row \in {classify(split(line), params)}} : TRUE
    ELSE <<>>

\* the templates take the parameter for the device and the device for the
\* parameter
format_swapped(agent, hostname, datum) ==
    IF agent = "graphite"
    THEN concat(<<GraphitePrefixText, datum.param, DotText, datum.device,
                  SpaceText, datum.value, HostOpenText, hostname, QuoteText>>)
    ELSE concat(<<PutvalText, hostname, IostatPathText, datum.param,
                  SlashText, datum.device, NText, datum.value>>)

\* template.format(hostname, device, param, value)
format(agent, hostname, datum) ==
    IF agent = "graphite"
    THEN concat(<<GraphitePrefixText, datum.device, DotText, datum.param,
                  SpaceText, datum.value, HostOpenText, hostname, QuoteText>>)
    ELSE concat(<<PutvalText, hostname, IostatPathText, datum.device,
                  SlashText, datum.param, NText, datum.value>>)

\* one call: the outcome is "ok", or the connect is "refused", or the
\* connection is "reset" during sendall; both failures raise socket.error
\* before sock.close()
transmit_line(line, outcome) ==
    [raised |-> outcome # "ok",
     opened |-> 1,
     closed |-> IF outcome = "ok" THEN 1 ELSE 0,
     sent   |-> IF outcome = "ok" THEN <<line \o <<"\n">>>> ELSE <<>>]

\* a line is sent whatever the agent is
sending_any_agent(emit, agent) == emit

\* if emit and agent == 'graphite'
sending(emit, agent) == emit /\ agent = "graphite"

\* fail = 0: every send succeeds; fail = i: the send of the i-th datum
\* raises with the outcome how.  The result is what was printed, whether the
\* call raised, and the connections opened and closed.
RECURSIVE output_loop(_, _, _, _, _, _, _, _)
output_loop(data, i, agent, hostname, emit, fail, how, acc) ==
    IF i > Len(data) THEN acc
    ELSE CHOOSE result \in UNION UNION {{{
             IF tx.raised
             THEN [sofar EXCEPT !.raised = TRUE]
             ELSE output_loop(data, i + 1, agent, hostname, emit, fail, how,
                              [sofar EXCEPT !.printed = Append(@, line)])
             : sofar \in {[acc EXCEPT
                              !.opened = @ + tx.opened,
                              !.closed = @ + tx.closed,
                              !.sent = @ \o tx.sent,
                              !.peak = IF acc.opened + tx.opened - acc.closed > @
                                       THEN acc.opened + tx.opened - acc.closed
                                       ELSE @]}}
             : tx \in {IF sending(emit, agent)
                       THEN transmit_line(line, IF i = fail THEN how ELSE "ok")
                       ELSE [raised |-> FALSE, opened |-> 0, closed |-> 0,
                             sent |-> <<>>]}}
             : line \in {format(agent, hostname, data[i])}} : TRUE

output_data(data, agent, hostname, emit, fail, how) ==
    output_loop(data, 1, agent, hostname, emit, fail, how,
                [printed |-> <<>>, raised |-> FALSE, opened |-> 0,
                 closed |-> 0, sent |-> <<>>, peak |-> 0])

(* --------------------- iostat_collectd_plugin.py ----------------------- *)
\* the elif len(parts) == len(params): branch is missing
process_line_no_cpu(line, params, hostname) ==
    CHOOSE result \in
        {[observations |-> [i \in 1..Len(row.values) |->
                               [device |-> row.device,
                                param  |-> params[i],
                                value  |-> row.values[i]]],
          printed |-> [i \in 1..Len(row.values) |->
                          concat(<<PutvalText, hostname, IostatPluginPathText,
                                   row.device, SlashText, params[i], NText,
                                   row.values[i]>>)],
          return_status |-> row.values # <<>>]
         : row \in {IF strip(line) # <<>>
                    THEN IF Len(split(line)) = Len(params) + 1
                         THEN [device |-> split(line)[1],
                               values |-> Tail(split(line))]
                         ELSE [device |-> <<>>, values |-> <<>>]
                    ELSE [device |-> <<>>, values |-> <<>>]}} : TRUE

\* the observations process_line prints, the lines, and its return status;
\* row is (device, values) after the if line.strip(): block
process_line(line, params, hostname) ==
    CHOOSE result \in
        {[observations |-> [i \in 1..Len(row.values) |->
                               [device |-> row.device,
                                param  |-> params[i],
                                value  |-> row.values[i]]],
          printed |-> [i \in 1..Len(row.values) |->
                          concat(<<PutvalText, hostname, IostatPluginPathText,
                                   row.device, SlashText, params[i], NText,
                                   row.values[i]>>)],
          return_status |-> row.values # <<>>]
         : row \in {IF strip(line) # <<>>
                    THEN IF Len(split(line)) = Len(params) + 1
                         THEN [device |-> split(line)[1],
                               values |-> Tail(split(line))]
                         ELSE IF Len(split(line)) = Len(params)
                              THEN [device |-> CpuName,
                                    values |-> split(line)]
                              ELSE [device |-> <<>>, values |-> <<>>]
                    ELSE [device |-> <<>>, values |-> <<>>]}} : TRUE

(* ------------------------------- state --------------------------------- *)
VARIABLES
    prog,         \* which of the two programs runs
    ARGS,         \* parsed arguments: get_cpu, agent, emit
    pc,           \* the parent's position in main()
    handlers,     \* signals that have _sigterm_handler registered
    hostname,     \* main's hostname
    io_stats,     \* main's io_stats
    return_code,  \* main's return_code
    exit_code,    \* the parent's exit status, NotExited while it runs
    child,        \* the iostat process: "none", "running", "exited" (on
                  \* its own) or "terminated" (by process.terminate())
    pipe,         \* lines written by the child and not yet read
    out,          \* the parent's standard output, line by line
    conns,        \* connections to the agent: opened, closed, and the
                  \* most that were open at one time
    hist,         \* one record for each line read so far
    term_calls,   \* calls of process.terminate()
    sigs_sent,    \* signals delivered to the parent
    nwritten      \* lines the child has written

vars == <<prog, ARGS, pc, handlers, hostname, io_stats, return_code,
          exit_code, child, pipe, out, conns, hist, term_calls, sigs_sent,
          nwritten>>

NotExited == -1

\* iostat_collectd_plugin.py has no agent and no emit option: it always
\* prints the local format
Configs ==
    { [p |-> "plugin", a |-> [get_cpu |-> c, agent |-> g, emit |-> e]] :
          c \in BOOLEAN, g \in AGENTS, e \in BOOLEAN }
    \cup
    { [p |-> "collectd", a |-> [get_cpu |-> c, agent |-> "collectd",
                                emit |-> FALSE]] : c \in BOOLEAN }

Init ==
    /\ \E cfg \in Configs : prog = cfg.p /\ ARGS = cfg.a
    /\ pc = "start"
    /\ handlers = {}
    /\ hostname = <<>>
    /\ io_stats = NoneValue
    /\ return_code = 0
    /\ exit_code = NotExited
    /\ child = "none"
    /\ pipe = <<>>
    /\ out = <<>>
    /\ conns = [opened |-> 0, closed |-> 0, peak |-> 0]
    /\ hist = <<>>
    /\ term_calls = 0
    /\ sigs_sent = 0
    /\ nwritten = 0

(* ------------------------------ the child ------------------------------ *)
\* iostat writes its next line, one of lines
Write(lines) ==
    /\ child = "running"
    /\ pc \in {"spawned", "int_set", "loop"}
    /\ nwritten < MaxLines
    /\ Len(pipe) < MaxPipe
    /\ \E l \in lines : pipe' = Append(pipe, l)
    /\ nwritten' = nwritten + 1
    /\ UNCHANGED <<prog, ARGS, pc, handlers, hostname, io_stats, return_code,
                   exit_code, child, out, conns, hist, term_calls, sigs_sent>>

\* iostat writes a line of a device report
ChildWrite == Write(SampleLines)

\* iostat writes any line
ChildWriteAny == Write(LineSet)

\* iostat ends on its own
ChildExit ==
    /\ child = "running"
    /\ pc \in {"spawned", "int_set", "loop"}
    /\ child' = "exited"
    /\ UNCHANGED <<prog, ARGS, pc, handlers, hostname, io_stats, return_code,
                   exit_code, pipe, out, conns, hist, term_calls, sigs_sent,
                   nwritten>>

(* ------------------------------- main() -------------------------------- *)
\* process = subprocess.Popen(...)
Popen ==
    /\ pc = "start"
    /\ pc' = "spawned"
    /\ child' = "running"
    /\ UNCHANGED <<prog, ARGS, handlers, hostname, io_stats, return_code,
                   exit_code, pipe, out, conns, hist, term_calls, sigs_sent,
                   nwritten>>

\* signal.signal(signal.SIGINT, _sigterm_handler)
RegisterSigint ==
    /\ pc = "spawned"
    /\ pc' = "int_set"
    /\ handlers' = handlers \cup {SIGINT}
    /\ UNCHANGED <<prog, ARGS, hostname, io_stats, return_code, exit_code,
                   child, pipe, out, conns, hist, term_calls, sigs_sent,
                   nwritten>>

\* signal.signal(signal.SIGTERM, _sigterm_handler), then the hostname and
\* io_stats = None, do_it = True
RegisterSigterm ==
    /\ pc = "int_set"
    /\ pc' = "loop"
    /\ handlers' = handlers \cup {SIGTERM}
    /\ hostname' = replace(GetHostName, ".", "_")
    /\ io_stats' = NoneValue
    /\ UNCHANGED <<prog, ARGS, return_code, exit_code, child, pipe, out,
                   conns, hist, term_calls, sigs_sent, nwritten>>

\* the handler does nothing once termination was requested
sigterm_handler_once(sig_no) ==
    IF term_calls = 0
    THEN /\ out' = Append(out, concat(<<TerminatingText, str(sig_no), CloseParenText>>))
         /\ child' = IF child = "running" THEN "terminated" ELSE child
         /\ term_calls' = term_calls + 1
    ELSE /\ out' = out
         /\ child' = child
         /\ term_calls' = term_calls

\* the body of _sigterm_handler
sigterm_handler(sig_no) ==
    /\ out' = Append(out, concat(<<TerminatingText, str(sig_no), CloseParenText>>))
    /\ child' = IF child = "running" THEN "terminated" ELSE child
    /\ term_calls' = term_calls + 1

\* a signal for which the handler is registered
SignalHandled ==
    /\ pc \in {"int_set", "loop"}
    /\ sigs_sent < MaxSignals
    /\ \E sig_no \in handlers : sigterm_handler(sig_no)
    /\ sigs_sent' = sigs_sent + 1
    /\ UNCHANGED <<prog, ARGS, pc, handlers, hostname, io_stats, return_code,
                   exit_code, pipe, conns, hist, nwritten>>

\* a signal that still has its default disposition: SIGTERM kills the
\* parent, SIGINT raises KeyboardInterrupt, which nothing catches
SignalDefault ==
    /\ pc \in {"spawned", "int_set"}
    /\ sigs_sent < MaxSignals
    /\ \E sig_no \in {SIGINT, SIGTERM} \ handlers :
          IF sig_no = SIGTERM
          THEN pc' = "killed" /\ exit_code' = 0 - SIGTERM
          ELSE pc' = "crashed" /\ exit_code' = 1
    /\ sigs_sent' = sigs_sent + 1
    /\ UNCHANGED <<prog, ARGS, handlers, hostname, io_stats, return_code,
                   child, pipe, out, conns, hist, term_calls, nwritten>>

\* the end of the stream leaves return_code as it was
at_eof_kept(code) == [return_code |-> code, do_it |-> FALSE]

\* if not line: return_code = 1, do_it = False
at_eof(code) == [return_code |-> 1, do_it |-> FALSE]

\* readline() returns '': the pipe is drained and the child is gone
ReadEof ==
    /\ pc = "loop"
    /\ pipe = <<>>
    /\ child \in {"exited", "terminated"}
    /\ out' = Append(out, NoNewLinesText)
    /\ return_code' = at_eof(return_code).return_code
    /\ pc' = IF at_eof(return_code).do_it THEN "loop" ELSE "exited"
    /\ exit_code' = return_code'
    /\ UNCHANGED <<prog, ARGS, handlers, hostname, io_stats, child, pipe,
                   conns, hist, term_calls, sigs_sent, nwritten>>

\* what the elif io_stats: branch of program p does with a line: the
\* observations, the lines printed, whether the schema is kept, whether the
\* branch raised
row_branch(p, agent, emit, host, params, line, fail, how) ==
    IF p = "plugin"
    THEN \* data = extract_line_data(line, io_stats); output_data(data, ...)
         CHOOSE step \in UNION {
             {IF data # <<>>
              THEN [obs |-> data, printed |-> res.printed, keep |-> TRUE,
                    raised |-> res.raised, opened |-> res.opened,
                    closed |-> res.closed, peak |-> res.peak]
              ELSE [obs |-> <<>>, printed |-> <<>>, keep |-> FALSE,
                    raised |-> FALSE, opened |-> 0, closed |-> 0, peak |-> 0]
              : res \in {output_data(data, agent, host, emit, fail, how)}}
             : data \in {extract_line_data(line, params)}} : TRUE
    ELSE \* data = process_line(line, io_stats, hostname)
         CHOOSE step \in
             {[obs |-> res.observations, printed |-> res.printed,
               keep |-> res.return_status, raised |-> FALSE, opened |-> 0,
               closed |-> 0, peak |-> 0]
              : res \in {process_line(line, params, host)}} : TRUE

\* the branch in the running program, on its own state
RowStep(line, fail, how) ==
    row_branch(prog, ARGS.agent, ARGS.emit, hostname, io_stats.list, line,
               fail, how)

\* the schema is dropped after every line
after_row_dropped(keep, stats) == NoneValue

\* the schema outlives a line that gave no data
after_row_kept(keep, stats) == stats

\* if data: ... else: io_stats = None
after_row(keep, stats) == IF keep THEN stats ELSE NoneValue

\* a line is read while io_stats is true, and every send succeeds
ReadRow ==
    /\ pc = "loop"
    /\ pipe # <<>>
    /\ Truthy(io_stats)
    /\ \E line \in {Head(pipe)} : \E step \in {RowStep(line, 0, "ok")} :
           /\ io_stats' = after_row(step.keep, io_stats)
           /\ out' = out \o step.printed
           /\ conns' = [opened |-> conns.opened + step.opened,
                        closed |-> conns.closed + step.closed,
                        peak |-> IF conns.opened - conns.closed + step.peak > conns.peak
                                 THEN conns.opened - conns.closed + step.peak
                                 ELSE conns.peak]
           /\ hist' = Append(hist, [line |-> line, io_stats |-> io_stats',
                                    obs |-> step.obs, printed |-> step.printed,
                                    raised |-> FALSE])
    /\ pipe' = Tail(pipe)
    /\ UNCHANGED <<prog, ARGS, pc, handlers, hostname, return_code, exit_code,
                   child, term_calls, sigs_sent, nwritten>>

\* a line is read while io_stats is true, and transmit_line raises for one
\* of its observations: socket.error leaves main() and the parent exits
\* with a traceback
ReadRowSendFails ==
    /\ pc = "loop"
    /\ pipe # <<>>
    /\ Truthy(io_stats)
    /\ \E fail \in 1..Len(io_stats.list), how \in {"refused", "reset"} :
          \E line \in {Head(pipe)} : \E step \in {RowStep(line, fail, how)} :
              /\ step.raised
              /\ out' = out \o step.printed
              /\ conns' = [opened |-> conns.opened + step.opened,
                           closed |-> conns.closed + step.closed,
                           peak |-> IF conns.opened - conns.closed + step.peak > conns.peak
                                    THEN conns.opened - conns.closed + step.peak
                                    ELSE conns.peak]
              /\ hist' = Append(hist, [line |-> line, io_stats |-> io_stats,
                                       obs |-> step.obs,
                                       printed |-> step.printed,
                                       raised |-> TRUE])
    /\ pipe' = Tail(pipe)
    /\ pc' = "crashed"
    /\ exit_code' = 1
    /\ UNCHANGED <<prog, ARGS, handlers, hostname, io_stats, return_code,
                   child, term_calls, sigs_sent, nwritten>>

\* the CPU header is never discarded
cpu_opt_out_never(get_cpu, stat_type) == FALSE

\* if not ARGS.get_cpu and stat_type == 'avg-cpu:'
cpu_opt_out(get_cpu, stat_type) == ~get_cpu /\ stat_type = CpuMarker

\* the else: branch: the value io_stats has after it
header_branch(get_cpu, line) ==
    CHOOSE stats \in
        {IF cpu_opt_out(get_cpu, got.param_type)
         THEN NoneValue
         ELSE ListValue(got.param_list)
         : got \in {get_parameters(line)}} : TRUE

\* one pass of the while loop of program p over a line that was read, every
\* send succeeding: the value of io_stats after it and the observations
loop_body(p, get_cpu, agent, emit, host, stats, line) ==
    IF Truthy(stats)
    THEN CHOOSE pass \in
             {[io_stats |-> after_row(step.keep, stats), obs |-> step.obs,
               printed |-> step.printed]
              : step \in {row_branch(p, agent, emit, host, stats.list, line,
                                     0, "ok")}} : TRUE
    ELSE [io_stats |-> header_branch(get_cpu, line), obs |-> <<>>,
          printed |-> <<>>]

\* a line is read while io_stats is false: the else: branch
ReadHeader ==
    /\ pc = "loop"
    /\ pipe # <<>>
    /\ ~Truthy(io_stats)
    /\ \E line \in {Head(pipe)} :
           /\ io_stats' = header_branch(ARGS.get_cpu, line)
           /\ hist' = Append(hist, [line |-> line, io_stats |-> io_stats',
                                    obs |-> <<>>, printed |-> <<>>,
                                    raised |-> FALSE])
    /\ pipe' = Tail(pipe)
    /\ UNCHANGED <<prog, ARGS, pc, handlers, hostname, return_code, exit_code,
                   child, out, conns, term_calls, sigs_sent, nwritten>>

Next ==
    \/ ChildWrite
    \/ ChildExit
    \/ Popen
    \/ RegisterSigint
    \/ RegisterSigterm
    \/ SignalHandled
    \/ SignalDefault
    \/ ReadEof
    \/ ReadRow
    \/ ReadRowSendFails
    \/ ReadHeader

\* the whole program, signals included, reading device reports
Spec == Init /\ [][Next]_vars

\* the program left alone by signals, reading any stream of lines
NextStream ==
    \/ ChildWriteAny
    \/ ChildExit
    \/ Popen
    \/ RegisterSigint
    \/ RegisterSigterm
    \/ ReadEof
    \/ ReadRow
    \/ ReadRowSendFails
    \/ ReadHeader

SpecStream == Init /\ [][NextStream]_vars

TypeOK ==
    /\ prog \in {"plugin", "collectd"}
    /\ pc \in {"start", "spawned", "int_set", "loop", "exited", "crashed", "killed"}
    /\ handlers \subseteq {SIGINT, SIGTERM}
    /\ child \in {"none", "running", "exited", "terminated"}
    /\ Len(pipe) <= MaxPipe
    /\ exit_code \in {NotExited, 0, 1, 0 - SIGTERM}

(* ------------------------- reading the history ------------------------- *)
\* io_stats when the i-th line was read
Before(i) == IF i = 1 THEN NoneValue ELSE hist[i - 1].io_stats

\* the whitespace-separated tokens of the i-th line read
Tokens(i) == split(hist[i].line)

FirstToken(i) == IF Tokens(i) = <<>> THEN <<>> ELSE Tokens(i)[1]

\* the i-th line read is a header the configuration tracks
TrackedHeader(i) ==
    \/ FirstToken(i) = DeviceMarker
    \/ FirstToken(i) = CpuMarker /\ ARGS.get_cpu

\* the column names a header line announces, with '/', '-' and '%' replaced
\* by '_'
Columns(i) ==
    CHOOSE cols \in
        {[j \in 1..(Len(t) - 1) |->
             [c \in 1..Len(t[j + 1]) |->
                 IF t[j + 1][c] \in {"/", "-", "%"} THEN "_" ELSE t[j + 1][c]]]
         : t \in {Tokens(i)}} : TRUE

\* the i-th line was read with a schema and its shape broke it (a blank or
\* whitespace-only line has no token)
BreaksShape(i) ==
    /\ Truthy(Before(i))
    /\ Len(Tokens(i)) \notin {Len(Before(i).list), Len(Before(i).list) + 1}

(* ------------------------------- claims -------------------------------- *)
\* C1: in HAVE_SCHEMA with k >= 1 columns, a blank or whitespace-only line,
\* or a line whose token count is neither k nor k+1, emits no observation
\* and puts the driver in AWAITING_HEADER; a tracked header line read right
\* after it installs that header's columns.
SchemaReset ==
    \A i \in 1..Len(hist) :
        BreaksShape(i) =>
            /\ hist[i].obs = <<>>
            /\ hist[i].printed = <<>>
            /\ ~Truthy(hist[i].io_stats)
            /\ (i < Len(hist) /\ TrackedHeader(i + 1)) =>
                   hist[i + 1].io_stats = ListValue(Columns(i + 1))

\* a line broke the shape of the schema and the header read right after it
\* is in effect
SchemaResetWitness ==
    \E i \in 1..(Len(hist) - 1) :
        /\ BreaksShape(i)
        /\ TrackedHeader(i + 1)
        /\ Truthy(hist[i + 1].io_stats)

\* C2: with get_cpu false and the driver in AWAITING_HEADER, an avg-cpu:
\* header and the lines after it, up to the next Device: header, emit no
\* observation and leave the driver in AWAITING_HEADER.
CpuOptOut ==
    \A i \in 1..Len(hist) :
        (~ARGS.get_cpu /\ ~Truthy(Before(i)) /\ FirstToken(i) = CpuMarker) =>
            \A j \in i..Len(hist) :
                (\A m \in (i + 1)..j : FirstToken(m) # DeviceMarker) =>
                    /\ hist[j].obs = <<>>
                    /\ hist[j].printed = <<>>
                    /\ ~Truthy(hist[j].io_stats)

\* an ignored avg-cpu: header with one column was followed by a one-token
\* row
CpuOptOutWitness ==
    /\ ~ARGS.get_cpu
    /\ Len(hist) >= 2
    /\ hist[1].line = LineCpu1
    /\ hist[2].line = LineRow1
    /\ out = <<>>

\* C3: under a schema of k columns a line of k+1 tokens gives k
\* observations, all of entity tokens[0], the i-th with metric columns[i]
\* and value tokens[i+1].
RowColumnAlignment ==
    \A i \in 1..Len(hist) :
        (Truthy(Before(i)) /\ Len(Tokens(i)) = Len(Before(i).list) + 1) =>
            hist[i].obs =
                [j \in 1..Len(Before(i).list) |->
                    [device |-> Tokens(i)[1],
                     param  |-> Before(i).list[j],
                     value  |-> Tokens(i)[j + 1]]]

\* the row 'sda 1 2' was read under the columns r_s and _util
RowColumnAlignmentWitness ==
    \E i \in 2..Len(hist) :
        /\ hist[i - 1].line = LineDev2
        /\ hist[i - 1].io_stats = ListValue(<<<<"r", "_", "s">>,
                                              <<"_", "u", "t", "i", "l">>>>)
        /\ hist[i].line = LineRow3
        /\ Len(hist[i].obs) = 2

\* C4: under a schema of k columns a line of k tokens gives k observations
\* of entity "cpu", the i-th with metric columns[i] and value tokens[i].
CpuRowShape ==
    \A i \in 1..Len(hist) :
        (Truthy(Before(i)) /\ Len(Tokens(i)) = Len(Before(i).list)) =>
            hist[i].obs =
                [j \in 1..Len(Before(i).list) |->
                    [device |-> <<"c", "p", "u">>,
                     param  |-> Before(i).list[j],
                     value  |-> Tokens(i)[j]]]

\* the row '5' was read under the one column of an avg-cpu: header
CpuRowShapeWitness ==
    \E i \in 2..Len(hist) :
        /\ hist[i - 1].line = LineCpu1
        /\ Truthy(hist[i - 1].io_stats)
        /\ hist[i].line = LineRow1
        /\ Len(hist[i].obs) = 1
        /\ hist[i].obs[1].device = <<"c", "p", "u">>

\* the parent process is gone
ParentGone == pc \in {"exited", "crashed", "killed"}

\* the last line read ended in an uncaught socket.error
SendFailed == hist # <<>> /\ hist[Len(hist)].raised

\* C5: a termination signal delivered to the parent after the child was
\* spawned, also between the spawn and the registration of the handlers,
\* has terminate() called on the child before the parent exits.
SignalStopsChild ==
    (ParentGone /\ sigs_sent > 0) => term_calls > 0

\* C6: a run that ends because a signal's handler terminated the child,
\* whose output then reached its end, exits with code 0.
SignalExitCodeZero ==
    (pc = "exited" /\ child = "terminated") => exit_code = 0

\* C7 as stated: the end of the stream with no termination request stops the
\* driver with exit code 1, and the read loop ends in no other way.
LoopEndsOnlyAtEof ==
    /\ (pc = "exited" /\ term_calls = 0) => (exit_code = 1 /\ pipe = <<>>)
    /\ (SIGTERM \in handlers /\ pc # "loop") => pc = "exited"

\* C7: the end of the stream stops the driver with exit code 1: no line is
\* read and nothing is printed after it.  While lines arrive the read loop
\* ends in no other way, except that in iostat_plugin.py with the graphite
\* agent and emit set a send that fails ends it with an uncaught
\* socket.error, which also gives exit code 1.
UnexpectedStreamEnd ==
    /\ [](pc = "exited" =>
            /\ exit_code = 1
            /\ return_code = 1
            /\ pipe = <<>>
            /\ child # "running"
            /\ out[Len(out)] = NoNewLinesText)
    /\ [][(pc = "loop" /\ pc' # "loop") =>
            \/ /\ pc' = "exited"
               /\ pipe = <<>>
               /\ hist' = hist
            \/ /\ pc' = "crashed"
               /\ exit_code' = 1
               /\ prog = "plugin" /\ ARGS.agent = "graphite" /\ ARGS.emit
               /\ hist'[Len(hist')].raised]_vars
    /\ [][ParentGone => (hist' = hist /\ out' = out /\ pc' = pc)]_vars

\* the child ended on its own after a line was read, nobody asked for
\* termination, and the parent has exited
UnexpectedStreamEndWitness ==
    /\ pc = "exited"
    /\ term_calls = 0
    /\ child = "exited"
    /\ exit_code = 1
    /\ hist # <<>>
    /\ out[Len(out)] = NoNewLinesText

\* C8: when the parent has exited at the end of the stream or on a failed
\* send, the child has been terminated.
NoOrphan ==
    (pc = "exited" \/ (pc = "crashed" /\ SendFailed)) => child # "running"

\* the local line of an observation, with the path segment plugin
LocalLine(plugin, h, o) ==
    concat(<<PutvalText, h, plugin, o.device, SlashText, o.param, NText,
             o.value>>)

\* the remote line of an observation
RemoteLine(h, o) ==
    concat(<<GraphitePrefixText, o.device, DotText, o.param, SpaceText,
             o.value, HostOpenText, h, QuoteText>>)

\* C9 as stated: every line printed for an observation is the local line
\* with /iostat/ or the remote line, in both programs.
WireFormatBoth ==
    \A i \in 1..Len(hist) : \A j \in 1..Len(hist[i].printed) :
        hist[i].printed[j] =
            IF ARGS.agent = "graphite"
            THEN RemoteLine(hostname, hist[i].obs[j])
            ELSE LocalLine(IostatPathText, hostname, hist[i].obs[j])

\* C9: in iostat_plugin.py every line printed for an observation is
\* 'PUTVAL h/iostat/gauge-entity/metric N:value' for the local format and
\* "iostat.entity.metric value host='h'" for the remote format; in
\* iostat_collectd_plugin.py it is
\* 'PUTVAL h/iostatplugin/gauge-entity/metric N:value'.
WireFormat ==
    \A i \in 1..Len(hist) : \A j \in 1..Len(hist[i].printed) :
        hist[i].printed[j] =
            IF prog = "collectd"
            THEN LocalLine(IostatPluginPathText, hostname, hist[i].obs[j])
            ELSE IF ARGS.agent = "graphite"
                 THEN RemoteLine(hostname, hist[i].obs[j])
                 ELSE LocalLine(IostatPathText, hostname, hist[i].obs[j])

\* iostat_plugin.py has printed the remote lines of the row 'sda 1 2' read
\* under 'Device: r/s %util'
WireFormatWitness ==
    /\ prog = "plugin"
    /\ ARGS.agent = "graphite"
    /\ out = << <<"i", "o", "s", "t", "a", "t", ".", "s", "d", "a", ".",
                  "r", "_", "s", " ", "1", " ", "h", "o", "s", "t", "=",
                  "'", "h", "_", "x", "'">>,
                <<"i", "o", "s", "t", "a", "t", ".", "s", "d", "a", ".",
                  "_", "u", "t", "i", "l", " ", "2", " ", "h", "o", "s",
                  "t", "=", "'", "h", "_", "x", "'">> >>

\* C10: with the remote format every observation line produced is printed,
\* also when the send of that line fails.
RemoteAlwaysPrinted ==
    ARGS.agent = "graphite" =>
        \A i \in 1..Len(hist) : Len(hist[i].printed) = Len(hist[i].obs)

\* the number of observation lines printed for the first n lines read
RECURSIVE PrintedCount(_)
PrintedCount(n) ==
    IF n = 0 THEN 0 ELSE PrintedCount(n - 1) + Len(hist[n].printed)

\* C11: a connection is opened only with the graphite agent and emit set;
\* otherwise none is ever opened and the lines are only printed.  With both
\* set, every printed line had one connection opened and closed for it, and
\* at most one connection is open at any time (the one left open is that of
\* a send that failed).
TransmissionGating ==
    /\ ~(ARGS.agent = "graphite" /\ ARGS.emit) => conns.opened = 0
    /\ (ARGS.agent = "graphite" /\ ARGS.emit) =>
           /\ conns.closed = PrintedCount(Len(hist))
           /\ conns.opened = conns.closed + (IF SendFailed THEN 1 ELSE 0)
    /\ conns.peak <= 1
    /\ prog = "collectd" => conns.opened = 0

\* two lines were printed and two connections opened and closed
TransmissionGatingWitness ==
    /\ ARGS.agent = "graphite"
    /\ ARGS.emit
    /\ Len(out) = 2
    /\ conns = [opened |-> 2, closed |-> 2, peak |-> 1]

\* the i-th line read is a header line of either kind
HeaderLine(i) == FirstToken(i) \in {DeviceMarker, CpuMarker}

\* C12: a line whose first token is Device: or avg-cpu: gives no
\* observation in any driver state, also when it has k or k+1 tokens under
\* a schema of k columns.
HeadersNeverData ==
    \A i \in 1..Len(hist) : HeaderLine(i) => hist[i].obs = <<>>

\* the parent's own steps
ParentStep ==
    \/ Popen
    \/ RegisterSigint
    \/ RegisterSigterm
    \/ ReadEof
    \/ ReadRow
    \/ ReadRowSendFails
    \/ ReadHeader

\* the parent is a running process: it takes its next step when it can
\* (readline() returns once a line or the end of the stream is there)
SpecFair == Spec /\ WF_vars(ParentStep)

\* the signals that found the handler registered: a signal with the default
\* disposition ends the parent
HandledSignals ==
    sigs_sent - (IF pc = "killed" \/ (pc = "crashed" /\ ~SendFailed)
                 THEN 1 ELSE 0)

\* the text l begins with the text p
StartsWith(l, p) ==
    Len(l) >= Len(p) /\ \A c \in 1..Len(p) : l[c] = p[c]

\* the lines of standard output written by the handler
RECURSIVE HandlerLines(_)
HandlerLines(n) ==
    IF n = 0 THEN 0
    ELSE HandlerLines(n - 1)
         + (IF StartsWith(out[n], TerminatingText) THEN 1 ELSE 0)

\* C13: every handled signal, the second like the first, runs the whole
\* handler (its message and terminate()), after which the child is not
\* running; a second request changes nothing else, and after two requests
\* the parent still reaches its exit.
IdempotentTerminate ==
    /\ [](/\ term_calls = HandledSignals
          /\ HandlerLines(Len(out)) = term_calls
          /\ term_calls >= 1 => child \in {"terminated", "exited"})
    /\ [][(term_calls >= 1 /\ term_calls' = term_calls + 1) =>
             (child' = child /\ pc' = pc /\ io_stats' = io_stats
              /\ pipe' = pipe)]_vars
    /\ (term_calls >= 2) ~> ParentGone

\* two signals were handled, the child was terminated by the first, and the
\* parent has exited at the end of the stream
IdempotentTerminateWitness ==
    /\ term_calls = 2
    /\ sigs_sent = 2
    /\ child = "terminated"
    /\ pc = "exited"

\* the line is a data row of the table whose header announced the columns cols
ValidRowFor(line, cols) ==
    /\ Len(split(line)) \in {Len(cols), Len(cols) + 1}
    /\ split(line)[1] \notin {DeviceMarker, CpuMarker}

\* the observations carry, in order, the columns cols
UnderSchema(obs, cols) ==
    /\ Len(obs) = Len(cols)
    /\ \A j \in 1..Len(obs) : obs[j].param = cols[j]

\* the i-th line read is a tracked header with columns that came right after
\* a data row and broke the shape of the schema in effect
HeaderAfterRows(i) ==
    /\ i > 1
    /\ hist[i - 1].obs # <<>>
    /\ BreaksShape(i)
    /\ TrackedHeader(i)
    /\ Columns(i) # <<>>

\* C14: a tracked header that directly follows the data rows of the previous
\* table and breaks the shape of its schema is re-acquired: a valid data row
\* that follows it, the next line read or any line the child may write next,
\* is emitted under that header's columns.
Reacquisition ==
    \A i \in 1..Len(hist) :
        HeaderAfterRows(i) =>
            /\ \A line \in LineSet :
                   ValidRowFor(line, Columns(i)) =>
                       UnderSchema(loop_body(prog, ARGS.get_cpu, ARGS.agent,
                                             ARGS.emit, hostname,
                                             hist[i].io_stats, line).obs,
                                   Columns(i))
            /\ (i < Len(hist) /\ ValidRowFor(hist[i + 1].line, Columns(i))) =>
                   UnderSchema(hist[i + 1].obs, Columns(i))

\* the i-th line was read in the else: branch and begins with a marker
RecognizedHeader(i) == ~Truthy(Before(i)) /\ HeaderLine(i)

\* what a header candidate leaves: the columns of a tracked header, and
\* otherwise no schema
AsHeaderCandidate(i) ==
    /\ hist[i].obs = <<>>
    /\ IF TrackedHeader(i) /\ Columns(i) # <<>>
       THEN hist[i].io_stats = ListValue(Columns(i))
       ELSE ~Truthy(hist[i].io_stats)

\* C15: whenever the driver holds a schema its column list is non-empty, no
\* column name contains '/', '-' or '%', and the names are the tokens of the
\* header that installed it with those characters replaced by '_'; a
\* recognized header of the marker alone installs no schema and the line
\* after it is a header candidate.
SchemaInvariant ==
    \A i \in 1..Len(hist) :
        /\ Truthy(hist[i].io_stats) =>
               /\ Len(hist[i].io_stats.list) >= 1
               /\ \A j \in 1..Len(hist[i].io_stats.list) :
                      \A c \in 1..Len(hist[i].io_stats.list[j]) :
                          hist[i].io_stats.list[j][c] \notin {"/", "-", "%"}
               /\ IF Truthy(Before(i))
                  THEN hist[i].io_stats = Before(i)
                  ELSE /\ RecognizedHeader(i)
                       /\ hist[i].io_stats = ListValue(Columns(i))
        /\ (RecognizedHeader(i) /\ Len(Tokens(i)) = 1) =>
               /\ ~Truthy(hist[i].io_stats)
               /\ i < Len(hist) => AsHeaderCandidate(i + 1)

\* 'Device:' alone was read as a header, and 'Device: r/s %util' right after
\* it installed the columns r_s and _util
SchemaInvariantWitness ==
    \E i \in 1..(Len(hist) - 1) :
        /\ hist[i].line = LineDev0
        /\ RecognizedHeader(i)
        /\ hist[i + 1].line = LineDev2
        /\ hist[i + 1].io_stats = ListValue(<<<<"r", "_", "s">>,
                                              <<"_", "u", "t", "i", "l">>>>)
        /\ io_stats = hist[i + 1].io_stats

\* the index of the header line that installed the schema in effect when
\* the i-th line was read (0 if there is none)
RECURSIVE AcceptedHeader(_)
AcceptedHeader(i) ==
    IF i <= 1 THEN 0
    ELSE IF ~Truthy(Before(i)) THEN 0
         ELSE IF ~Truthy(Before(i - 1)) THEN i - 1
              ELSE AcceptedHeader(i - 1)

\* C16: a line that classifies as a valid row under the schema leaves the
\* schema as it was; every observation emitted carries, at its position, the
\* column of the most recently accepted header line; no observation is
\* emitted for a line read in AWAITING_HEADER.
ValidRowKeepsSchema ==
    \A i \in 1..Len(hist) :
        /\ (Truthy(Before(i)) /\ ~BreaksShape(i) /\ ~hist[i].raised) =>
               hist[i].io_stats = Before(i)
        /\ hist[i].obs # <<>> =>
               /\ AcceptedHeader(i) >= 1
               /\ UnderSchema(hist[i].obs, Columns(AcceptedHeader(i)))
        /\ ~Truthy(Before(i)) =>
               hist[i].obs = <<>> /\ hist[i].printed = <<>>

\* two rows in a row were emitted under the columns of 'Device: r/s %util',
\* read first
ValidRowKeepsSchemaWitness ==
    /\ Len(hist) = 3
    /\ hist[1].line = LineDev2
    /\ hist[2].line = LineRow3
    /\ hist[3].line = LineRow2
    /\ AcceptedHeader(3) = 1
    /\ Len(hist[3].obs) = 2
    /\ io_stats = hist[1].io_stats

\* the line the running program prints for an observation
WireLine(o) ==
    IF prog = "collectd" THEN LocalLine(IostatPluginPathText, hostname, o)
    ELSE IF ARGS.agent = "graphite" THEN RemoteLine(hostname, o)
         ELSE LocalLine(IostatPathText, hostname, o)

\* the first n lines of standard output without the notices of the handler
\* and of the end of the stream
RECURSIVE EmittedLines(_)
EmittedLines(n) ==
    IF n = 0 THEN <<>>
    ELSE IF StartsWith(out[n], TerminatingText) \/ out[n] = NoNewLinesText
         THEN EmittedLines(n - 1)
         ELSE Append(EmittedLines(n - 1), out[n])

\* the lines of the observations of the first n lines read, in input order
\* and, within a line, in column order
RECURSIVE ObservationLines(_)
ObservationLines(n) ==
    IF n = 0 THEN <<>>
    ELSE ObservationLines(n - 1)
         \o [j \in 1..Len(hist[n].obs) |-> WireLine(hist[n].obs[j])]

\* C17: at every point between two reads the lines emitted so far are the
\* observations of the lines read so far, every one of them, in input order
\* and in column order: nothing is held back and nothing is missing.
LineAtATime == EmittedLines(Len(out)) = ObservationLines(Len(hist))

\* C18: every line iostat_collectd_plugin.py writes to standard output,
\* at signal receipt and at the end of the stream too, begins with PUTVAL.
PutvalOnly ==
    prog = "collectd" =>
        \A n \in 1..Len(out) : StartsWith(out[n], <<"P", "U", "T", "V", "A", "L">>)

\* C19: with CPU tracking disabled no observation of entity "cpu" is
\* emitted, whatever the lines read.
NoCpuWhenDisabled ==
    ~ARGS.get_cpu =>
        \A i \in 1..Len(hist) : \A j \in 1..Len(hist[i].obs) :
            hist[i].obs[j].device # <<"c", "p", "u">>

\* the other of the two programs
Other(p) == IF p = "plugin" THEN "collectd" ELSE "plugin"

\* the running program writes the local format
LocalFormat == prog = "collectd" \/ ARGS.agent = "collectd"

\* what program p, writing the local format, does with the i-th line read,
\* from the driver state the running program read it in
PassOf(p, i) ==
    loop_body(p, ARGS.get_cpu, "collectd", ARGS.emit, hostname, Before(i),
              hist[i].line)

\* C20: on every line read, from the same driver state, the other program
\* (in the local format) moves to the same driver state and emits the same
\* observations as the running one, so that on the same input the two go
\* through the same states and observations; with no signal, both end only
\* at the end of the stream, with exit code 1.
DriversEquivalent ==
    LocalFormat =>
        /\ \A i \in 1..Len(hist) :
               \E mine \in {PassOf(prog, i)}, theirs \in {PassOf(Other(prog), i)} :
                   /\ hist[i].io_stats = mine.io_stats
                   /\ hist[i].obs = mine.obs
                   /\ theirs.io_stats = hist[i].io_stats
                   /\ theirs.obs = hist[i].obs
        /\ pc = "exited" => exit_code = 1
        /\ pc \notin {"crashed", "killed"}

\* iostat_collectd_plugin.py read 'avg-cpu: %idle' and the row '5' with CPU
\* tracking on, a device header after them, and ended at the end of the
\* stream
DriversEquivalentWitness ==
    /\ prog = "collectd"
    /\ ARGS.get_cpu
    /\ Len(hist) = 3
    /\ hist[1].line = LineCpu1
    /\ hist[2].line = LineRow1
    /\ Len(hist[2].obs) = 1
    /\ hist[3].line = LineDev2
    /\ pc = "exited"
    /\ exit_code = 1
====
